---------------------------- MODULE Spec2Model ----------------------------
(***************************************************************************)
(* A model of convert-mbox-to-pdf.py: the MboxConverter of one run, its    *)
(* attachment extractor, body extractor, document renderer and the batch   *)
(* loop of process_mbox with the exit status of main.                      *)
(*                                                                         *)
(* Text is a sequence of one-character strings; a character outside ASCII  *)
(* is written as its code point ("U+E9"), an undecodable byte as "xFF".    *)
(* A file system is a function from paths <<directory, name>> to contents; *)
(* a content is a sequence of lines, each a text.                          *)
(***************************************************************************)
EXTENDS Integers, Sequences, FiniteSets, TLC

----------------------------------------------------------------------------
(* Bounds of the model *)

MaxMessages == 3

MaxParts == 2

MaxCalls == 2

(* the longest archive of the long batch run *)
MaxLong == 11

(* the longest body of the renderer's messages *)
MaxBody == 4

(* the longest archive of the run that follows the progress tracker *)
MaxUpdates == 5

(* the number of messages of the run whose output paths are followed *)
MaxNamed == 2

(* Program constants *)

OrdinalWidth == 4

SafeNameMax == 100

SafeSubjectMax == 50

(* ProgressTracker.update_interval, in tenths of a second *)
UpdateInterval == 5

(* the width of the progress bar *)
BarWidth == 30

----------------------------------------------------------------------------
(* Text helpers: the Python string operations the code uses *)

Min(a, b) == IF a < b THEN a ELSE b

Take(s, n) == SubSeq(s, 1, Min(n, Len(s)))

StartsWithAt(s, i, pat) ==
    /\ i + Len(pat) - 1 <= Len(s)
    /\ \A j \in 1..Len(pat) : s[i + j - 1] = pat[j]

(* str.replace(old, new): leftmost non-overlapping occurrences *)
RECURSIVE ReplaceFrom(_, _, _, _)
ReplaceFrom(s, i, old, new) ==
    IF i > Len(s) THEN <<>>
    ELSE IF StartsWithAt(s, i, old) THEN new \o ReplaceFrom(s, i + Len(old), old, new)
    ELSE <<s[i]>> \o ReplaceFrom(s, i + 1, old, new)

Replace(s, old, new) == ReplaceFrom(s, 1, old, new)

(* str.split(sep) for a non-empty separator *)
RECURSIVE SplitFrom(_, _, _, _)
SplitFrom(s, i, sep, cur) ==
    IF i > Len(s) THEN <<cur>>
    ELSE IF StartsWithAt(s, i, sep) THEN <<cur>> \o SplitFrom(s, i + Len(sep), sep, <<>>)
    ELSE SplitFrom(s, i + 1, sep, Append(cur, s[i]))

Split(s, sep) == SplitFrom(s, 1, sep, <<>>)

Whitespace == {" ", "\n", "\t", "\r"}

RECURSIVE LStrip(_)
LStrip(s) == IF s # <<>> /\ Head(s) \in Whitespace THEN LStrip(Tail(s)) ELSE s

RECURSIVE RStrip(_)
RStrip(s) ==
    IF s # <<>> /\ s[Len(s)] \in Whitespace THEN RStrip(SubSeq(s, 1, Len(s) - 1)) ELSE s

Strip(s) == RStrip(LStrip(s))

Contains(s, c) == \E j \in 1..Len(s) : s[j] = c

(* the largest index of c in s, 0 when absent: str.rfind(c) + 1 *)
RFind(s, c) ==
    IF Contains(s, c) THEN CHOOSE j \in 1..Len(s) : s[j] = c /\ \A k \in (j+1)..Len(s) : s[k] # c
    ELSE 0

Digit(d) == <<"0", "1", "2", "3", "4", "5", "6", "7", "8", "9">>[d + 1]

(* str(n) for n >= 0 *)
RECURSIVE Str(_)
Str(n) == IF n < 10 THEN <<Digit(n)>> ELSE Str(n \div 10) \o <<Digit(n % 10)>>

RECURSIVE Zeros(_)
Zeros(n) == IF n <= 0 THEN <<>> ELSE <<"0">> \o Zeros(n - 1)

(* the ordinal cut to its last four digits *)
Pad4Wrapped(n) == Zeros(OrdinalWidth - Len(Str(n % 10000))) \o Str(n % 10000)

(* f"{n:04d}" *)
Pad4(n) == Zeros(OrdinalWidth - Len(Str(n))) \o Str(n)

Letters ==
    {"a", "b", "c", "d", "e", "f", "g", "h", "i", "j", "k", "l", "m", "n", "o", "p", "q", "r", "s", "t", "u", "v", "w", "x", "y", "z",
     "A", "B", "C", "D", "E", "F", "G", "H", "I", "J", "K", "L", "M", "N", "O", "P", "Q", "R", "S", "T", "U", "V", "W", "X", "Y", "Z"}

Digits == {"0", "1", "2", "3", "4", "5", "6", "7", "8", "9"}

(* str.isalnum: letters and digits, ASCII or not *)
IsAlnum(c) == c \in Letters \cup Digits \cup {"U+E9"}

(* str.isascii *)
IsAscii(c) == c \notin {"U+E9", "U+FFFD"}


----------------------------------------------------------------------------
(* Messages.  A message is [headers, multipart, parts]: headers maps the    *)
(* header names present to their raw values, parts is the sequence that     *)
(* message.walk() yields (for a single-part message, the message itself).   *)
(* A part is [disp, ctype, filename, payload, charset]: disp is the         *)
(* Content-Disposition value as words (<<>> when absent), filename the raw  *)
(* declared filename (<<>> when absent), payload the decoded bytes or       *)
(* Undecodable when get_payload(decode=True) raises.                        *)

Undecodable == <<"!undecodable">>

(* a raw header value holding an encoded-word that decode_header rejects *)
BadWord == "=?!"

(* the multipart container that message.walk() yields first *)
Container ==
    [disp |-> <<>>, ctype |-> "multipart/mixed", filename |-> <<>>,
     payload |-> <<>>, charset |-> ""]

Walk(message) == IF message.multipart THEN <<Container>> \o message.parts ELSE message.parts

Get(headers, name, default) == IF name \in DOMAIN headers THEN headers[name] ELSE default

----------------------------------------------------------------------------
(* MboxConverter.decode_header_value: [raised, value] *)

decode_header_value(value) ==
    IF Contains(value, BadWord) THEN [raised |-> TRUE, value |-> <<>>]
    ELSE [raised |-> FALSE, value |-> value]

(* MboxConverter.get_safe_filename *)

SafeFileChar(c) == IF IsAlnum(c) \/ c \in {"-", "_", ".", " "} THEN c ELSE "_"

get_safe_filename(filename) ==
    IF filename = <<>> THEN <<"u","n","k","n","o","w","n","_","f","i","l","e">>
    ELSE Take([j \in 1..Len(filename) |-> SafeFileChar(filename[j])], SafeNameMax)

(* mimetypes.guess_extension(content_type) or ".bin" *)
GuessExtension(ctype) ==
    CASE ctype = "text/plain" -> <<".", "t", "x", "t">>
      [] ctype = "text/html" -> <<".", "h", "t", "m", "l">>
      [] ctype = "application/pdf" -> <<".", "p", "d", "f">>
      [] OTHER -> <<".", "b", "i", "n">>

(* os.path.splitext of a name without directory separators: the extension  *)
(* starts at the last dot unless only dots precede it                       *)
SplitExt(p) ==
    LET dot == RFind(p, ".")
    IN  IF dot > 0 /\ \E j \in 1..(dot - 1) : p[j] # "."
        THEN <<SubSeq(p, 1, dot - 1), SubSeq(p, dot, Len(p))>>
        ELSE <<p, <<>>>>

Exists(disk, path) == path \in DOMAIN disk

WriteFile(disk, path, content) ==
    [q \in DOMAIN disk \cup {path} |-> IF q = path THEN content ELSE disk[q]]

(* the collision loop left out: the first name is used as it is *)
UniqueFilenameUnchecked(unique_filename, counter, dir, disk) == unique_filename

(* the collision loop of extract_email_attachments: the name the loop ends with *)
RECURSIVE UniqueFilename(_, _, _, _)
UniqueFilename(unique_filename, counter, dir, disk) ==
    IF Exists(disk, <<dir, unique_filename>>)
    THEN LET sp == SplitExt(unique_filename)
         IN  UniqueFilename(sp[1] \o <<"_">> \o Str(counter) \o sp[2], counter + 1, dir, disk)
    ELSE unique_filename

Qualifies(part) == Contains(part.disp, "attachment") \/ Contains(part.disp, "inline")

(* One iteration of the loop over message.walk() in extract_email_attachments.  *)
(* st is [raised, attachments, disk, saved, visited]; io is what the file system *)
(* does with this part's write: "ok", "open_fails" or "write_fails".  visited   *)
(* is not a variable of the code: it counts the qualifying parts reached.       *)
ExtractQualifying(part, io, email_id, dir, st) ==
    LET declared == part.filename # <<>>
        decoded  == decode_header_value(part.filename)
        filename == IF declared THEN decoded.value
                    ELSE <<"a","t","t","a","c","h","m","e","n","t","_">>
                         \o Str(Len(st.attachments) + 1) \o GuessExtension(part.ctype)
        safe_filename == get_safe_filename(filename)
        unique_filename ==
            UniqueFilename(Pad4(email_id) \o <<"_">> \o safe_filename, 1, dir, st.disk)
        file_path == <<dir, unique_filename>>
    IN  IF declared /\ decoded.raised THEN [st EXCEPT !.raised = TRUE]
        ELSE IF part.payload = Undecodable \/ part.payload = <<>> THEN st
        ELSE IF io = "open_fails" THEN st
        ELSE IF io = "write_fails"
             THEN [st EXCEPT !.disk = WriteFile(st.disk, file_path, <<>>)]
        ELSE [st EXCEPT
                !.disk = WriteFile(st.disk, file_path, <<part.payload>>),
                !.attachments = Append(st.attachments,
                    [filename |-> filename, saved_as |-> unique_filename,
                     path |-> file_path, size |-> Len(part.payload),
                     content_type |-> part.ctype]),
                !.saved = st.saved + 1]

ExtractPart(part, io, email_id, dir, st) ==
    IF st.raised \/ ~Qualifies(part) THEN st
    ELSE ExtractQualifying(part, io, email_id, dir, [st EXCEPT !.visited = @ + 1])

RECURSIVE ExtractWalk(_, _, _, _, _, _)
ExtractWalk(parts, ios, k, email_id, dir, st) ==
    IF k > Len(parts) THEN st
    ELSE ExtractWalk(parts, ios, k + 1, email_id, dir,
                     ExtractPart(parts[k], ios[k], email_id, dir, st))

(* MboxConverter.extract_email_attachments on converter state                  *)
(* cv = [extract_attachments, attachments_dir, disk, attachment_count,          *)
(* attachment_saved]: [raised, attachments, cv, visited]                        *)
extract_email_attachments(message, ios, email_id, cv) ==
    IF ~cv.extract_attachments
    THEN [raised |-> FALSE, attachments |-> <<>>, cv |-> cv, visited |-> 0]
    ELSE
    LET st == ExtractWalk(Walk(message), ios, 1, email_id, cv.attachments_dir,
                  [raised |-> FALSE, attachments |-> <<>>, disk |-> cv.disk,
                   saved |-> cv.attachment_saved, visited |-> 0])
    IN  [raised |-> st.raised, visited |-> st.visited,
         attachments |-> IF st.raised THEN <<>> ELSE st.attachments,
         cv |-> [cv EXCEPT
                   !.disk = st.disk,
                   !.attachment_saved = st.saved,
                   !.attachment_count =
                       IF st.raised THEN @ ELSE @ + Len(st.attachments)]]

----------------------------------------------------------------------------
(* html_to_text: the regular-expression substitutions, one scanner each.    *)
(* A matcher gives the index of the last character of the match that        *)
(* starts at i, or 0 when there is none.                                    *)

(* the first index >= i holding c, 0 when there is none *)
FindFrom(s, i, c) ==
    IF \E j \in i..Len(s) : s[j] = c
    THEN CHOOSE j \in i..Len(s) : s[j] = c /\ \A k \in i..(j - 1) : s[k] # c
    ELSE 0

(* the first index >= i where pat starts, 0 when there is none *)
FindSeqFrom(s, i, pat) ==
    IF \E j \in i..Len(s) : StartsWithAt(s, j, pat)
    THEN CHOOSE j \in i..Len(s) :
            StartsWithAt(s, j, pat) /\ \A k \in i..(j - 1) : ~StartsWithAt(s, k, pat)
    ELSE 0

(* prefix[^>]*> *)
MatchOpenTag(s, i, prefix) ==
    IF StartsWithAt(s, i, prefix) THEN FindFrom(s, i + Len(prefix), ">") ELSE 0

(* <!DOCTYPE[^>]*>|<html[^>]*>|<head>.*?</head> with DOTALL *)
MatchWrapper(s, i) ==
    LET doctype == MatchOpenTag(s, i, <<"<", "!", "D", "O", "C", "T", "Y", "P", "E">>)
        html    == MatchOpenTag(s, i, <<"<", "h", "t", "m", "l">>)
        close   == IF StartsWithAt(s, i, <<"<", "h", "e", "a", "d", ">">>)
                   THEN FindSeqFrom(s, i + 6, <<"<", "/", "h", "e", "a", "d", ">">>) ELSE 0
    IN  IF doctype > 0 THEN doctype
        ELSE IF html > 0 THEN html
        ELSE IF close > 0 THEN close + 6
        ELSE 0

(* <br[^>]*>|</p>|</div> *)
MatchBreak(s, i) ==
    LET br == MatchOpenTag(s, i, <<"<", "b", "r">>)
    IN  IF br > 0 THEN br
        ELSE IF StartsWithAt(s, i, <<"<", "/", "p", ">">>) THEN i + 3
        ELSE IF StartsWithAt(s, i, <<"<", "/", "d", "i", "v", ">">>) THEN i + 5
        ELSE 0

(* <[^>]+> *)
MatchTag(s, i) ==
    LET gt == IF i <= Len(s) /\ s[i] = "<" THEN FindFrom(s, i + 1, ">") ELSE 0
    IN  IF gt > i + 1 THEN gt ELSE 0

(* the last index of the run of whitespace starting at i, i - 1 when s[i] is none *)
RECURSIVE SpaceRunEnd(_, _)
SpaceRunEnd(s, i) ==
    IF i <= Len(s) /\ s[i] \in Whitespace THEN SpaceRunEnd(s, i + 1) ELSE i - 1

(* \s+ *)
MatchSpaces(s, i) == LET e == SpaceRunEnd(s, i) IN IF e >= i THEN e ELSE 0

(* \n\s+ *)
MatchNewlineSpaces(s, i) ==
    IF s[i] = "\n" /\ SpaceRunEnd(s, i + 1) >= i + 1 THEN SpaceRunEnd(s, i + 1) ELSE 0

RECURSIVE NewlineRunEnd(_, _)
NewlineRunEnd(s, i) == IF i <= Len(s) /\ s[i] = "\n" THEN NewlineRunEnd(s, i + 1) ELSE i - 1

(* \n+ *)
MatchNewlines(s, i) == LET e == NewlineRunEnd(s, i) IN IF e >= i THEN e ELSE 0

(* the match of one of the patterns of html_to_text *)
MatchEnd(pattern, s, i) ==
    CASE pattern = "wrapper" -> MatchWrapper(s, i)
      [] pattern = "break" -> MatchBreak(s, i)
      [] pattern = "tag" -> MatchTag(s, i)
      [] pattern = "spaces" -> MatchSpaces(s, i)
      [] pattern = "newline-spaces" -> MatchNewlineSpaces(s, i)
      [] pattern = "newlines" -> MatchNewlines(s, i)

(* re.sub(pattern, rep, s): the leftmost non-overlapping matches replaced *)
RECURSIVE RegexSub(_, _, _, _)
RegexSub(pattern, s, i, rep) ==
    IF i > Len(s) THEN <<>>
    ELSE LET e == MatchEnd(pattern, s, i)
         IN  IF e >= i THEN rep \o RegexSub(pattern, s, e + 1, rep)
             ELSE <<s[i]>> \o RegexSub(pattern, s, i + 1, rep)

html_to_text(html_content) ==
    IF html_content = <<>> THEN <<>>
    ELSE
    LET h1 == RegexSub("wrapper", html_content, 1, <<>>)
        h2 == Replace(h1, <<"&", "n", "b", "s", "p", ";">>, <<" ">>)
        h3 == Replace(h2, <<"&", "l", "t", ";">>, <<"<">>)
        h4 == Replace(h3, <<"&", "g", "t", ";">>, <<">">>)
        h5 == Replace(h4, <<"&", "a", "m", "p", ";">>, <<"&">>)
        h6 == Replace(h5, <<"&", "q", "u", "o", "t", ";">>, <<"\"">>)
        h7 == RegexSub("break", h6, 1, <<"\n">>)
        h8 == RegexSub("tag", h7, 1, <<" ">>)
        h9 == RegexSub("spaces", h8, 1, <<" ">>)
        h10 == RegexSub("newline-spaces", h9, 1, <<"\n">>)
        h11 == RegexSub("newlines", h10, 1, <<"\n", "\n">>)
    IN  Strip(h11)

----------------------------------------------------------------------------
(* MboxConverter.get_email_text *)

NoContent == <<"[", "N", "o", " ", "m", "e", "s", "s", "a", "g", "e", " ", "c", "o", "n", "t", "e", "n", "t", " ", "f", "o", "u", "n", "d", "]">>

(* bytes.decode(charset, errors='replace'): an unknown charset raises          *)
(* LookupError, an undecodable byte becomes U+FFFD                             *)
KnownCharsets == {"", "utf-8"}

DecodeByte(b) == IF b = "xFF" THEN "U+FFFD" ELSE b

(* One iteration of the loop of get_email_text over a multipart message;       *)
(* acc is [plain_text, html_text].                                             *)
BodyPart(part, acc) ==
    IF Contains(part.disp, "attachment") THEN acc
    ELSE IF part.payload = Undecodable THEN acc
    ELSE IF part.payload = <<>> THEN acc
    ELSE IF part.charset \notin KnownCharsets THEN acc
    ELSE LET decoded_payload == [j \in 1..Len(part.payload) |-> DecodeByte(part.payload[j])]
         IN  IF part.ctype = "text/plain"
             THEN [acc EXCEPT !.plain_text = @ \o decoded_payload \o <<"\n", "\n">>]
             ELSE IF part.ctype = "text/html"
             THEN [acc EXCEPT !.html_text = @ \o decoded_payload]
             ELSE acc

RECURSIVE BodyWalk(_, _, _)
BodyWalk(parts, k, acc) ==
    IF k > Len(parts) THEN acc ELSE BodyWalk(parts, k + 1, BodyPart(parts[k], acc))

(* the single-part branch of get_email_text *)
BodySingle(part) ==
    LET none == [plain_text |-> <<>>, html_text |-> <<>>]
    IN  IF part.payload = Undecodable \/ part.payload = <<>> THEN none
        ELSE IF part.charset \notin KnownCharsets THEN none
        ELSE LET decoded_payload == [j \in 1..Len(part.payload) |-> DecodeByte(part.payload[j])]
             IN  IF part.ctype = "text/plain" THEN [none EXCEPT !.plain_text = decoded_payload]
                 ELSE IF part.ctype = "text/html" THEN [none EXCEPT !.html_text = decoded_payload]
                 ELSE none

(* the choice with HTML preferred *)
BodyChoiceHtmlFirst(acc) ==
    IF acc.html_text # <<>> THEN html_to_text(acc.html_text)
    ELSE IF Strip(acc.plain_text) # <<>> THEN acc.plain_text
    ELSE NoContent

(* lines 320-326 *)
BodyChoice(acc) ==
    IF Strip(acc.plain_text) # <<>> THEN acc.plain_text
    ELSE IF acc.html_text # <<>> THEN html_to_text(acc.html_text)
    ELSE NoContent

get_email_text(message) ==
    BodyChoice(IF message.multipart
               THEN BodyWalk(Walk(message), 1, [plain_text |-> <<>>, html_text |-> <<>>])
               ELSE BodySingle(message.parts[1]))

----------------------------------------------------------------------------
(* MboxConverter.format_size; f"{x:.1f}" rounds the exact quotient half to even *)

OneDecimal(n, unit) ==
    LET q == (n * 10) \div unit
        r == (n * 10) % unit
        tenths == IF 2 * r > unit \/ (2 * r = unit /\ q % 2 = 1) THEN q + 1 ELSE q
    IN  Str(tenths \div 10) \o <<".">> \o Str(tenths % 10)

format_size(size_bytes) ==
    IF size_bytes < 1024 THEN Str(size_bytes) \o <<" ", "b", "y", "t", "e", "s">>
    ELSE IF size_bytes < 1024 * 1024 THEN OneDecimal(size_bytes, 1024) \o <<" ", "K", "B">>
    ELSE OneDecimal(size_bytes, 1024 * 1024) \o <<" ", "M", "B">>

----------------------------------------------------------------------------
(* MboxConverter.create_pdf.  The renderer is a library: which characters  *)
(* make Paragraph(text) raise is the environment's choice (rejects), and so *)
(* is whether doc.build fails.  env is [ios, rejects, build].                *)

FormattingError == <<"[", "F", "o", "r", "m", "a", "t", "t", "i", "n", "g", " ", "e", "r", "r", "o", "r", " ", "w", "i", "t", "h", " ", "t", "h", "i", "s", " ", "p", "a", "r", "a", "g", "r", "a", "p", "h", "]">>

NoBody == <<"[", "N", "o", " ", "m", "e", "s", "s", "a", "g", "e", " ", "b", "o", "d", "y", "]">>

Spacer(h) == <<"Spacer", h>>

ParagraphRaises(text, rejects) == \E j \in 1..Len(text) : text[j] \in rejects

AsciiChar(c) == IF IsAscii(c) THEN c ELSE "_"

(* body_text.replace('&', '&amp;').replace('<', '&lt;').replace('>', '&gt;') *)
EscapeMarkup(text) ==
    Replace(Replace(Replace(text, <<"&">>, <<"&", "a", "m", "p", ";">>), <<"<">>, <<"&", "l", "t", ";">>), <<">">>, <<"&", "g", "t", ";">>)

(* a paragraph that fails to render left out *)
BodyBlocksDropFailed(paragraph, rejects) ==
    IF Strip(paragraph) = <<>> THEN <<>>
    ELSE LET formatted_text == Replace(paragraph, <<"\n">>, <<"<", "b", "r", "/", ">">>)
         IN  IF ~ParagraphRaises(formatted_text, rejects)
             THEN <<formatted_text, Spacer("6")>>
             ELSE <<>>

(* the blocks one paragraph of the body adds to content *)
BodyBlocks(paragraph, rejects) ==
    IF Strip(paragraph) = <<>> THEN <<>>
    ELSE LET formatted_text == Replace(paragraph, <<"\n">>, <<"<", "b", "r", "/", ">">>)
             simple_text == [j \in 1..Len(paragraph) |-> AsciiChar(paragraph[j])]
         IN  IF ~ParagraphRaises(formatted_text, rejects)
             THEN <<formatted_text, Spacer("6")>>
             ELSE IF ~ParagraphRaises(simple_text, rejects)
             THEN <<simple_text, Spacer("6")>>
             ELSE <<FormattingError, Spacer("6")>>

RECURSIVE BodyContent(_, _, _)
BodyContent(paragraphs, k, rejects) ==
    IF k > Len(paragraphs) THEN <<>>
    ELSE BodyBlocks(paragraphs[k], rejects) \o BodyContent(paragraphs, k + 1, rejects)

RenderBody(body_text, rejects) ==
    IF body_text # <<>>
    THEN BodyContent(Split(EscapeMarkup(body_text), <<"\n", "\n">>), 1, rejects)
    ELSE <<NoBody>>

RECURSIVE AttachmentRows(_, _)
AttachmentRows(attachments, k) ==
    IF k > Len(attachments) THEN <<>>
    ELSE <<Str(k) \o <<".", "|">> \o attachments[k].filename \o <<"|">>
           \o format_size(attachments[k].size) \o <<"|">> \o attachments[k].saved_as>>
         \o AttachmentRows(attachments, k + 1)

HeaderContent(subject, from_addr, to_addr, date) ==
    <<<<"<", "b", ">", "S", "u", "b", "j", "e", "c", "t", ":", "<", "/", "b", ">", " ">> \o subject, <<"<", "b", ">", "F", "r", "o", "m", ":", "<", "/", "b", ">", " ">> \o from_addr, <<"<", "b", ">", "T", "o", ":", "<", "/", "b", ">", " ">> \o to_addr, <<"<", "b", ">", "D", "a", "t", "e", ":", "<", "/", "b", ">", " ">> \o date>>

AttachmentContent(attachments) ==
    IF attachments # <<>>
    THEN <<Spacer("12"), <<"<", "b", ">", "A", "t", "t", "a", "c", "h", "m", "e", "n", "t", "s", ":", "<", "/", "b", ">">>>> \o AttachmentRows(attachments, 1)
    ELSE <<>>

Separator == <<Spacer("12"), <<"<", "h", "r", "/", ">">>, Spacer("12")>>

(* create_pdf up to the extraction of the attachments (lines 341-347):        *)
(* [raised, attachments, cv, visited]                                         *)
pdf_extract(message, email_id, cv, env) ==
    LET subject   == decode_header_value(Get(message.headers, "Subject", <<"N", "o", " ", "S", "u", "b", "j", "e", "c", "t">>))
        from_addr == decode_header_value(Get(message.headers, "From", <<"U", "n", "k", "n", "o", "w", "n">>))
        to_addr   == decode_header_value(Get(message.headers, "To", <<"U", "n", "k", "n", "o", "w", "n">>))
    IN  IF subject.raised \/ from_addr.raised \/ to_addr.raised
        THEN [raised |-> TRUE, attachments |-> <<>>, cv |-> cv, visited |-> 0]
        ELSE extract_email_attachments(message, env.ios, email_id, cv)

(* create_pdf from the body to doc.build (lines 349-427): [ok, cv, content];  *)
(* content is what doc.build was given, <<>> when it was never reached        *)
pdf_build(message, attachments, output_path, cv, env) ==
    LET subject   == decode_header_value(Get(message.headers, "Subject", <<"N", "o", " ", "S", "u", "b", "j", "e", "c", "t">>))
        from_addr == decode_header_value(Get(message.headers, "From", <<"U", "n", "k", "n", "o", "w", "n">>))
        to_addr   == decode_header_value(Get(message.headers, "To", <<"U", "n", "k", "n", "o", "w", "n">>))
        date      == Get(message.headers, "Date", <<"U", "n", "k", "n", "o", "w", "n", " ", "D", "a", "t", "e">>)
        body_text == get_email_text(message)
        header    == HeaderContent(subject.value, from_addr.value, to_addr.value, date)
        content   == header \o AttachmentContent(attachments) \o Separator
                     \o RenderBody(body_text, env.rejects)
    IN  IF \E j \in 1..Len(header) : ParagraphRaises(header[j], env.rejects)
        THEN [ok |-> FALSE, cv |-> cv, content |-> <<>>]
        ELSE IF env.build # "ok"
        THEN [ok |-> FALSE, cv |-> cv, content |-> content]
        ELSE [ok |-> TRUE,
              cv |-> [cv EXCEPT !.disk = WriteFile(@, output_path, content)],
              content |-> content]

----------------------------------------------------------------------------
(* The output path process_mbox derives for the message of ordinal n *)

SafeSubjectChar(c) == IF IsAlnum(c) \/ c \in {"-", "_", " "} THEN c ELSE "_"

OutputFilename(n, subject) ==
    Pad4(n) \o <<"_">> \o Take([j \in 1..Len(subject) |-> SafeSubjectChar(subject[j])], SafeSubjectMax)
    \o <<".", "p", "d", "f">>

----------------------------------------------------------------------------
(* State *)

VARIABLES
    extract_attachments,  \* MboxConverter.extract_attachments
    attachments_dir,      \* MboxConverter.attachments_dir
    disk,                 \* the files under the output and attachments directories
    attachment_count,     \* MboxConverter.attachment_count
    attachment_saved,     \* MboxConverter.attachment_saved
    pc,                   \* where the run is: "main", "open", "loop", "render", "returned", "exit"
    input_is_file,        \* os.path.isfile(args.input)
    archive_ok,           \* whether mailbox.mbox opens and indexes the archive
    n_messages,           \* the number of messages the archive holds
    total,                \* process_mbox: total
    success,              \* process_mbox: success
    i,                    \* process_mbox: the index of enumerate(mbox)
    current,              \* ProgressTracker.current
    cur,                  \* the message in flight inside create_pdf, <<>> when none
    printed,              \* the lines of the console summary
    ret,                  \* what process_mbox returned, <<>> before it returns
    exit_code,            \* what main returned, -1 before it returns
    archive,              \* history: the messages iterated so far, with the environment's choices
    visited,              \* history: the qualifying parts the extractor reached
    arg,                  \* the input of a function called on its own
    out                   \* the results of its calls

vars ==
    <<extract_attachments, attachments_dir, disk, attachment_count, attachment_saved,
      pc, input_is_file, archive_ok, n_messages, total, success, i, current, cur,
      printed, ret, exit_code, archive, visited, arg, out>>

OutputDir == "out"

DefaultAttachmentsDir == "out/attachments"

EmptyDisk == [q \in {} |-> <<>>]

Converter ==
    [extract_attachments |-> extract_attachments, attachments_dir |-> attachments_dir,
     disk |-> disk, attachment_count |-> attachment_count,
     attachment_saved |-> attachment_saved]

----------------------------------------------------------------------------
(* The messages of the batch run *)

TextPart ==
    [disp |-> <<>>, ctype |-> "text/plain", filename |-> <<>>,
     payload |-> <<"h", "i">>, charset |-> "utf-8"]

AttPart ==
    [disp |-> <<"attachment">>, ctype |-> "application/pdf",
     filename |-> <<"r", ".", "p", "d", "f">>, payload |-> <<"a", "b">>, charset |-> ""]

EmptyPart == [AttPart EXCEPT !.payload = <<>>]

BadNamePart == [AttPart EXCEPT !.filename = <<BadWord>>]

Single(headers) == [headers |-> headers, multipart |-> FALSE, parts |-> <<TextPart>>]

Multi(parts) ==
    [headers |-> [Subject |-> <<"r">>, Date |-> <<"d">>], multipart |-> TRUE, parts |-> parts]

BatchMessages ==
    { Single([Subject |-> <<"r">>, Date |-> <<"d">>]),
      Single([Date |-> <<"d">>]),
      Single([Subject |-> <<BadWord>>, Date |-> <<"d">>]),
      Single([Subject |-> <<"r">>, From |-> <<BadWord>>, Date |-> <<"d">>]),
      Multi(<<TextPart, AttPart>>),
      Multi(<<AttPart, BadNamePart>>) }

LongMessages ==
    { Single([Subject |-> <<"r">>, Date |-> <<"d">>]),
      Single([Subject |-> <<BadWord>>, Date |-> <<"d">>]) }

IOOutcomes == {"ok", "open_fails", "write_fails"}

(* the part's payload reaches open(file_path, "wb") *)
Writes(part) == Qualifies(part) /\ part.payload # <<>> /\ part.payload # Undecodable

(* the file system fails at most one write of a call *)
IOChoices(message) ==
    { f \in [1..Len(Walk(message)) -> IOOutcomes] :
        /\ \A k \in 1..Len(Walk(message)) : ~Writes(Walk(message)[k]) => f[k] = "ok"
        /\ Cardinality({k \in 1..Len(Walk(message)) : f[k] # "ok"}) <= 1 }

AllOk(message) == [k \in 1..Len(Walk(message)) |-> "ok"]

(* The environment of the batch run: for the message with a text and an       *)
(* attachment the file system may fail the write or the build may fail; for   *)
(* the others nothing fails.                                                   *)
BatchEnvs(message) ==
    IF message = Multi(<<TextPart, AttPart>>)
    THEN [ios : IOChoices(message), rejects : {{}}, build : {"ok"}]
         \cup [ios : {AllOk(message)}, rejects : {{}}, build : {"fails"}]
    ELSE [ios : {AllOk(message)}, rejects : {{}}, build : {"ok"}]

LongEnvs(message) ==
    [ios : {AllOk(message)}, rejects : {{}}, build : {"ok"}]

----------------------------------------------------------------------------
(* The batch run: main and MboxConverter.process_mbox *)

InitRun(maxMessages) ==
    /\ extract_attachments \in BOOLEAN
    /\ attachments_dir \in IF extract_attachments THEN {DefaultAttachmentsDir, OutputDir}
                           ELSE {DefaultAttachmentsDir}
    /\ disk = EmptyDisk
    /\ attachment_count = 0
    /\ attachment_saved = 0
    /\ pc = "main"
    /\ input_is_file \in BOOLEAN
    /\ archive_ok \in IF input_is_file THEN BOOLEAN ELSE {FALSE}
    /\ n_messages \in IF archive_ok THEN 0..maxMessages ELSE {0}
    /\ total = 0
    /\ success = 0
    /\ i = 0
    /\ current = 0
    /\ cur = <<>>
    /\ printed = <<>>
    /\ ret = <<>>
    /\ exit_code = -1
    /\ archive = <<>>
    /\ visited = 0
    /\ arg = <<>>
    /\ out = <<>>

Init == InitRun(MaxMessages)

(* main, lines 513-525: the input check and the construction of the converter *)
Main ==
    /\ pc = "main"
    /\ IF input_is_file
       THEN /\ pc' = "open"
            /\ exit_code' = exit_code
       ELSE /\ pc' = "exit"
            /\ exit_code' = 1
    /\ UNCHANGED <<extract_attachments, attachments_dir, disk, attachment_count,
                   attachment_saved, input_is_file, archive_ok, n_messages, total,
                   success, i, current, cur, printed, ret, archive, visited, arg, out>>

(* process_mbox, lines 435-450: an archive that cannot be opened raises into the *)
(* outer handler, which returns (0, 0)                                          *)
Open ==
    /\ pc = "open"
    /\ IF archive_ok
       THEN /\ total' = n_messages
            /\ success' = 0
            /\ current' = 0
            /\ pc' = "loop"
            /\ ret' = ret
       ELSE /\ ret' = <<0, 0>>
            /\ pc' = "returned"
            /\ UNCHANGED <<total, success, current>>
    /\ UNCHANGED <<extract_attachments, attachments_dir, disk, attachment_count,
                   attachment_saved, input_is_file, archive_ok, n_messages, i, cur,
                   printed, exit_code, archive, visited, arg, out>>

(* the end of one iteration: progress.update() and the next index.  The      *)
(* progress line is taken to print: the console accepts it and the clock has  *)
(* advanced since the tracker was built.                                       *)
EndIteration ==
    /\ current' = current + 1
    /\ i' = i + 1
    /\ cur' = <<>>
    /\ pc' = "loop"

(* the handler of the iteration, lines 466-467: the error is logged and the     *)
(* loop goes on                                                                 *)
MessageErrorEscapes ==
    /\ pc' = "returned"
    /\ ret' = <<0, 0>>
    /\ cur' = <<>>
    /\ UNCHANGED <<success, current, i>>

MessageError ==
    /\ EndIteration
    /\ UNCHANGED <<success, ret>>

(* a failed create_pdf counted as a success *)
CreatePdfFailedCounted ==
    /\ EndIteration
    /\ success' = success + 1
    /\ UNCHANGED ret

(* create_pdf returned False, lines 429-431 and 464 *)
CreatePdfFailed ==
    /\ EndIteration
    /\ UNCHANGED <<success, ret>>

(* One iteration of the loop up to the extraction of the attachments: lines     *)
(* 452-464 and create_pdf lines 341-347.  A subject that does not decode raises *)
(* into the handler of the iteration; a failure inside create_pdf makes it      *)
(* return False.                                                                *)
StartMessage(message, env) ==
    /\ pc = "loop"
    /\ i < total
    /\ archive' = Append(archive, [message |-> message, env |-> env])
    /\ LET subject == decode_header_value(Get(message.headers, "Subject", <<"N", "o", " ", "S", "u", "b", "j", "e", "c", "t">>))
           output_path == <<OutputDir, OutputFilename(i + 1, subject.value)>>
           ex == pdf_extract(message, i + 1, Converter, env)
       IN  IF subject.raised
           THEN /\ MessageError
                /\ UNCHANGED <<disk, attachment_count, attachment_saved, visited>>
           ELSE /\ disk' = ex.cv.disk
                /\ attachment_count' = ex.cv.attachment_count
                /\ attachment_saved' = ex.cv.attachment_saved
                /\ visited' = visited + ex.visited
                /\ IF ex.raised
                   THEN CreatePdfFailed
                   ELSE /\ cur' = [message |-> message, env |-> env,
                                   output_path |-> output_path,
                                   attachments |-> ex.attachments]
                        /\ pc' = "render"
                        /\ UNCHANGED <<current, i, success, ret>>
    /\ UNCHANGED <<extract_attachments, attachments_dir, input_is_file, archive_ok,
                   n_messages, total, printed, exit_code, arg, out>>

(* The rest of the iteration: create_pdf lines 349-431, then lines 464-470 *)
RenderMessage ==
    /\ pc = "render"
    /\ LET r == pdf_build(cur.message, cur.attachments, cur.output_path, Converter, cur.env)
       IN  /\ disk' = r.cv.disk
           /\ success' = IF r.ok THEN success + 1 ELSE success
    /\ EndIteration
    /\ UNCHANGED <<extract_attachments, attachments_dir, attachment_count,
                   attachment_saved, input_is_file, archive_ok, n_messages, total,
                   printed, ret, exit_code, archive, visited, arg, out>>

(* the summary giving up whenever nothing was converted *)
SummaryZeroOnNoSuccess ==
    /\ pc = "loop"
    /\ i = total
    /\ IF success = 0
       THEN /\ printed' = << <<"Processed", total>> >>
            /\ ret' = <<0, 0>>
       ELSE /\ printed' =
                << <<"Processed", total>>,
                   <<"Successfully converted", success>>,
                   <<"Failed", total - success>> >>
                \o IF extract_attachments
                   THEN << <<"Attachments extracted", attachment_saved, attachment_count>> >>
                   ELSE <<>>
            /\ ret' = <<success, total>>
    /\ pc' = "returned"
    /\ UNCHANGED <<extract_attachments, attachments_dir, disk, attachment_count,
                   attachment_saved, input_is_file, archive_ok, n_messages, total,
                   success, i, current, cur, exit_code, archive, visited, arg, out>>

(* process_mbox, lines 472-499: the summary.  success/total raises             *)
(* ZeroDivisionError for an empty archive, after the first summary line; the   *)
(* outer handler then returns (0, 0).                                          *)
Summary ==
    /\ pc = "loop"
    /\ i = total
    /\ IF total = 0
       THEN /\ printed' = << <<"Processed", total>> >>
            /\ ret' = <<0, 0>>
       ELSE /\ printed' =
                << <<"Processed", total>>,
                   <<"Successfully converted", success>>,
                   <<"Failed", total - success>> >>
                \o IF extract_attachments
                   THEN << <<"Attachments extracted", attachment_saved, attachment_count>> >>
                   ELSE <<>>
            /\ ret' = <<success, total>>
    /\ pc' = "returned"
    /\ UNCHANGED <<extract_attachments, attachments_dir, disk, attachment_count,
                   attachment_saved, input_is_file, archive_ok, n_messages, total,
                   success, i, current, cur, exit_code, archive, visited, arg, out>>

(* the threshold taken as "at least 90%" *)
ExitStatusAtLeast(s, t) == IF 10 * s >= 9 * t THEN 0 ELSE 1

(* main, line 529: success > total * 0.9.  The product is a float; for every   *)
(* total below 3000 the comparison agrees with the exact 10*success > 9*total. *)
ExitStatus(s, t) == IF 10 * s > 9 * t THEN 0 ELSE 1

Exit ==
    /\ pc = "returned"
    /\ exit_code' = ExitStatus(ret[1], ret[2])
    /\ pc' = "exit"
    /\ UNCHANGED <<extract_attachments, attachments_dir, disk, attachment_count,
                   attachment_saved, input_is_file, archive_ok, n_messages, total,
                   success, i, current, cur, printed, ret, archive, visited, arg, out>>

Convert == \E message \in BatchMessages : \E env \in BatchEnvs(message) : StartMessage(message, env)

Next == Main \/ Open \/ Convert \/ RenderMessage \/ Summary \/ Exit

Spec == Init /\ [][Next]_vars

(* The batch run over a longer archive of messages without attachments, each  *)
(* of which is converted or raises.                                            *)
InitLong == InitRun(MaxLong)

ConvertLong == \E message \in LongMessages : \E env \in LongEnvs(message) : StartMessage(message, env)

NextLong == Main \/ Open \/ ConvertLong \/ RenderMessage \/ Summary \/ Exit

SpecLong == InitLong /\ [][NextLong]_vars

----------------------------------------------------------------------------
(* The attachment extractor on its own: extract_email_attachments called      *)
(* MaxCalls times on one message, with one ordinal, into a directory that      *)
(* already holds files.                                                        *)

InlinePart ==
    [disp |-> <<"inline">>, ctype |-> "text/plain", filename |-> <<"r">>,
     payload |-> <<"d", "e", "f">>, charset |-> "utf-8"]

UnnamedPart == [AttPart EXCEPT !.filename = <<>>, !.payload = <<"c">>]

UndecodablePart == [InlinePart EXCEPT !.payload = Undecodable]

ExtractParts == {AttPart, EmptyPart, InlinePart, UnnamedPart, UndecodablePart, TextPart}

RECURSIVE SeqsUpTo(_, _)
SeqsUpTo(S, n) ==
    IF n = 0 THEN {<<>>}
    ELSE LET shorter == SeqsUpTo(S, n - 1)
         IN  shorter \cup {Append(q, x) : q \in {r \in shorter : Len(r) = n - 1}, x \in S}

ExtractMessages == {Multi(parts) : parts \in SeqsUpTo(ExtractParts, MaxParts) \ {<<>>}}

(* names already in the directory: those the first named attachment of        *)
(* message 1 may collide with                                                  *)
OldNames ==
    { <<"0", "0", "0", "1", "_", "r", ".", "p", "d", "f">>, <<"0", "0", "0", "1", "_", "r", "_", "1", ".", "p", "d", "f">> }

OldContent == << <<"o", "l", "d">> >>

OldDisks ==
    { [q \in {<<DefaultAttachmentsDir, name>> : name \in names} |-> OldContent] :
        names \in SUBSET OldNames }

InitExtract ==
    /\ extract_attachments = TRUE
    /\ attachments_dir = DefaultAttachmentsDir
    /\ disk \in OldDisks
    /\ attachment_count = 0
    /\ attachment_saved = 0
    /\ pc = "extract"
    /\ input_is_file = TRUE
    /\ archive_ok = TRUE
    /\ n_messages = 0
    /\ total = 0
    /\ success = 0
    /\ i = 0
    /\ current = 0
    /\ cur = <<>>
    /\ printed = <<>>
    /\ ret = <<>>
    /\ exit_code = -1
    /\ archive = <<>>
    /\ visited = 0
    /\ \E message \in ExtractMessages :
          arg = [message |-> message, email_id |-> 1, disk |-> disk]
    /\ out = <<>>

ExtractCall ==
    /\ pc = "extract"
    /\ Len(out) < MaxCalls
    /\ \E ios \in IOChoices(arg.message) :
          LET r == extract_email_attachments(arg.message, ios, arg.email_id, Converter)
          IN  /\ disk' = r.cv.disk
              /\ attachment_count' = r.cv.attachment_count
              /\ attachment_saved' = r.cv.attachment_saved
              /\ visited' = visited + r.visited
              /\ out' = Append(out, [ios |-> ios, raised |-> r.raised,
                                     attachments |-> r.attachments])
    /\ UNCHANGED <<extract_attachments, attachments_dir, pc, input_is_file, archive_ok,
                   n_messages, total, success, i, current, cur, printed, ret,
                   exit_code, archive, arg>>

NextExtract == ExtractCall

SpecExtract == InitExtract /\ [][NextExtract]_vars

----------------------------------------------------------------------------
(* The body extractor on its own: get_email_text called on one message *)

BlankPart == [TextPart EXCEPT !.payload = <<" ", "\n">>]

HtmlPart ==
    [disp |-> <<>>, ctype |-> "text/html", filename |-> <<>>,
     payload |-> <<"<", "p", ">", "x", "<", "/", "p", ">">>, charset |-> "utf-8"]

AttachedText ==
    [disp |-> <<"attachment">>, ctype |-> "text/plain", filename |-> <<"n">>,
     payload |-> <<"s">>, charset |-> "utf-8"]

BadCharsetPart == [TextPart EXCEPT !.payload = <<"q">>, !.charset = "x-unknown"]

InvalidBytePart == [TextPart EXCEPT !.payload = <<"a", "xFF">>, !.charset = ""]

ImagePart ==
    [disp |-> <<>>, ctype |-> "image/png", filename |-> <<>>,
     payload |-> <<"i">>, charset |-> ""]

BodyParts ==
    {TextPart, BlankPart, HtmlPart, AttachedText, BadCharsetPart, InvalidBytePart,
     ImagePart, InlinePart, UndecodablePart}

BodyMessages ==
    {Multi(parts) : parts \in SeqsUpTo(BodyParts, MaxParts) \ {<<>>}}
    \cup {[headers |-> [Subject |-> <<"r">>, Date |-> <<"d">>], multipart |-> FALSE,
           parts |-> <<part>>] : part \in BodyParts}

(* the state of a converter that has processed nothing *)
InitConverter ==
    /\ attachments_dir = DefaultAttachmentsDir
    /\ disk = EmptyDisk
    /\ attachment_count = 0
    /\ attachment_saved = 0
    /\ input_is_file = TRUE
    /\ archive_ok = TRUE
    /\ n_messages = 0
    /\ total = 0
    /\ success = 0
    /\ i = 0
    /\ current = 0
    /\ cur = <<>>
    /\ printed = <<>>
    /\ ret = <<>>
    /\ exit_code = -1
    /\ archive = <<>>
    /\ visited = 0
    /\ out = <<>>

InitBody ==
    /\ InitConverter
    /\ extract_attachments = TRUE
    /\ pc = "body"
    /\ \E message \in BodyMessages : arg = [message |-> message]

BodyCall ==
    /\ pc = "body"
    /\ out' = <<get_email_text(arg.message)>>
    /\ pc' = "done"
    /\ UNCHANGED <<extract_attachments, attachments_dir, disk, attachment_count,
                   attachment_saved, input_is_file, archive_ok, n_messages, total,
                   success, i, current, cur, printed, ret, exit_code, archive,
                   visited, arg>>

NextBody == BodyCall

SpecBody == InitBody /\ [][NextBody]_vars

----------------------------------------------------------------------------
(* The renderer on its own: create_pdf called on one single-part text         *)
(* message, with attachment extraction off, so that line 347 gives the empty  *)
(* list.  The renderer rejects some of the characters of the body, and the    *)
(* build may fail.                                                             *)

BodyAlphabet == {"a", "\n", "&", "U+E9", "x01"}

Bodies == SeqsUpTo(BodyAlphabet, MaxBody)

Rejected == {"U+E9", "x01"}

RenderMessages ==
    {[headers |-> [Subject |-> <<"r">>, Date |-> <<"d">>], multipart |-> FALSE,
      parts |-> <<[TextPart EXCEPT !.payload = body]>>] : body \in Bodies}

InitRender ==
    /\ InitConverter
    /\ extract_attachments = FALSE
    /\ pc = "renderer"
    /\ \E message \in RenderMessages, rejects \in SUBSET Rejected, build \in {"ok", "fails"} :
          arg = [message |-> message,
                 env |-> [ios |-> AllOk(message), rejects |-> rejects, build |-> build],
                 output_path |-> <<OutputDir, OutputFilename(1, <<"r">>)>>]

RenderCall ==
    /\ pc = "renderer"
    /\ LET r == pdf_build(arg.message, <<>>, arg.output_path, Converter, arg.env)
       IN  /\ disk' = r.cv.disk
           /\ attachment_count' = r.cv.attachment_count
           /\ attachment_saved' = r.cv.attachment_saved
           /\ out' = <<[ok |-> r.ok, content |-> r.content]>>
    /\ pc' = "done"
    /\ UNCHANGED <<extract_attachments, attachments_dir, input_is_file, archive_ok,
                   n_messages, total, success, i, current, cur, printed, ret,
                   exit_code, archive, visited, arg>>

NextRender == RenderCall

SpecRender == InitRender /\ [][NextRender]_vars

----------------------------------------------------------------------------
(* The progress tracker in the loop of process_mbox.  Time is time.time() in  *)
(* tenths of a second; a tracker pt is [total, current, last_update_time].    *)
(* What happens to a message is one of three things: create_pdf returns True, *)
(* it returns False, or the iteration raises into its handler.                *)

(* ProgressTracker.display: the line shown, and whether a newline follows *)
display(pt) ==
    [current |-> pt.current, total |-> pt.total,
     filled_width |-> IF pt.total > 0 THEN (BarWidth * pt.current) \div pt.total ELSE 0,
     newline |-> pt.current >= pt.total]

(* update with the time of the display never recorded *)
updateUnstamped(pt, current_time) ==
    LET stepped == [pt EXCEPT !.current = @ + 1]
    IN  IF current_time - pt.last_update_time >= UpdateInterval \/ stepped.current >= pt.total
        THEN [pt |-> stepped, shown |-> <<display(stepped)>>]
        ELSE [pt |-> stepped, shown |-> <<>>]

(* ProgressTracker.update: [pt, shown], shown the lines it displayed *)
update(pt, current_time) ==
    LET stepped == [pt EXCEPT !.current = @ + 1]
    IN  IF current_time - pt.last_update_time >= UpdateInterval \/ stepped.current >= pt.total
        THEN [pt |-> [stepped EXCEPT !.last_update_time = current_time],
              shown |-> <<display([stepped EXCEPT !.last_update_time = current_time])>>]
        ELSE [pt |-> stepped, shown |-> <<>>]

Outcomes == {"converted", "failed", "raised"}

(* how far the clock moves while one message is processed *)
Delays == {0, 2, 3}

(* process_mbox up to ProgressTracker.__init__ at line 447, on a clock well    *)
(* past the epoch; arg holds the clock and the times the tracker keeps         *)
InitProgress ==
    /\ extract_attachments = FALSE
    /\ attachments_dir = DefaultAttachmentsDir
    /\ disk = EmptyDisk
    /\ attachment_count = 0
    /\ attachment_saved = 0
    /\ pc = "tracking"
    /\ input_is_file = TRUE
    /\ archive_ok = TRUE
    /\ n_messages \in 0..MaxUpdates
    /\ total = n_messages
    /\ success = 0
    /\ i = 0
    /\ current = 0
    /\ cur = <<>>
    /\ printed = <<>>
    /\ ret = <<>>
    /\ exit_code = -1
    /\ archive = <<>>
    /\ visited = 0
    /\ arg = [time |-> 2 * UpdateInterval, start_time |-> 2 * UpdateInterval,
              last_update_time |-> 0]
    /\ out = <<>>

(* one iteration of the loop, lines 452-470: the message is converted, fails  *)
(* or raises, and progress.update() follows in each case; cur keeps what       *)
(* happened to the message                                                     *)
TrackMessage ==
    /\ pc = "tracking"
    /\ i < total
    /\ \E outcome \in Outcomes, delay \in Delays :
          LET current_time == arg.time + delay
              u == update([total |-> total, current |-> current,
                           last_update_time |-> arg.last_update_time], current_time)
          IN  /\ success' = IF outcome = "converted" THEN success + 1 ELSE success
              /\ cur' = <<outcome>>
              /\ current' = u.pt.current
              /\ arg' = [arg EXCEPT !.time = current_time,
                                    !.last_update_time = u.pt.last_update_time]
              /\ out' = out \o [k \in 1..Len(u.shown) |->
                                   [line |-> u.shown[k], time |-> current_time]]
    /\ i' = i + 1
    /\ UNCHANGED <<extract_attachments, attachments_dir, disk, attachment_count,
                   attachment_saved, pc, input_is_file, archive_ok, n_messages, total,
                   printed, ret, exit_code, archive, visited>>

(* the loop is over *)
TrackEnd ==
    /\ pc = "tracking"
    /\ i = total
    /\ pc' = "tracked"
    /\ UNCHANGED <<extract_attachments, attachments_dir, disk, attachment_count,
                   attachment_saved, input_is_file, archive_ok, n_messages, total,
                   success, i, current, cur, printed, ret, exit_code, archive,
                   visited, arg, out>>

NextProgress == TrackMessage \/ TrackEnd

SpecProgress == InitProgress /\ [][NextProgress]_vars

----------------------------------------------------------------------------
(* The output paths of a run: the iterations of the loop of process_mbox for  *)
(* some of the indexes of enumerate(mbox), with attachment extraction off and *)
(* nothing failing but the decoding of a subject.                              *)

(* the indexes followed, around the ordinals where the width changes *)
Indexes == {0, 9, 999, 9998, 9999, 10000, 99999}

IndexRuns ==
    {r \in SeqsUpTo(Indexes, MaxNamed) :
        Len(r) = MaxNamed /\ \A a, b \in 1..Len(r) : a < b => r[a] < r[b]}

LongSubject(last) == [j \in 1..(SafeSubjectMax + 1) |-> IF j <= SafeSubjectMax THEN "a" ELSE last]

SubjectHeaders ==
    { [Date |-> <<"d">>],
      [Subject |-> <<"r">>, Date |-> <<"d">>],
      [Subject |-> <<"0", "_", "r">>, Date |-> <<"d">>],
      [Subject |-> <<"a", "/", "b">>, Date |-> <<"d">>],
      [Subject |-> <<"a", "_", "b">>, Date |-> <<"d">>],
      [Subject |-> LongSubject("b"), Date |-> <<"d">>],
      [Subject |-> LongSubject("c"), Date |-> <<"d">>],
      [Subject |-> <<BadWord>>, Date |-> <<"d">>] }

InitNames ==
    /\ InitConverter
    /\ extract_attachments = FALSE
    /\ pc = "naming"
    /\ \E indexes \in IndexRuns : arg = [indexes |-> indexes]

(* lines 452-467 for the next index followed: out keeps the index, the        *)
(* subject header and the output path the message was given, <<>> when the    *)
(* subject raised                                                              *)
NameMessage ==
    /\ pc = "naming"
    /\ Len(out) < Len(arg.indexes)
    /\ \E headers \in SubjectHeaders :
          LET index == arg.indexes[Len(out) + 1]
              message == Single(headers)
              subject == decode_header_value(Get(headers, "Subject", <<"N", "o", " ", "S", "u", "b", "j", "e", "c", "t">>))
              output_path == <<OutputDir, OutputFilename(index + 1, subject.value)>>
              r == pdf_build(message, <<>>, output_path, Converter,
                             [ios |-> AllOk(message), rejects |-> {}, build |-> "ok"])
          IN  IF subject.raised
              THEN /\ out' = Append(out, [index |-> index, headers |-> headers,
                                          output_path |-> <<>>])
                   /\ disk' = disk
              ELSE /\ out' = Append(out, [index |-> index, headers |-> headers,
                                          output_path |-> output_path])
                   /\ disk' = r.cv.disk
    /\ UNCHANGED <<extract_attachments, attachments_dir, attachment_count,
                   attachment_saved, pc, input_is_file, archive_ok, n_messages, total,
                   success, i, current, cur, printed, ret, exit_code, archive,
                   visited, arg>>

NextNames == NameMessage

SpecNames == InitNames /\ [][NextNames]_vars

----------------------------------------------------------------------------
(* What the claims speak of *)

Returned == pc \in {"returned", "exit"}

(* a file that create_pdf built: its first block is the subject heading *)
IsDocument(content) == Len(content) >= 1 /\ StartsWithAt(content[1], 1, <<"<", "b", ">", "S", "u", "b", "j", "e", "c", "t", ":", "<", "/", "b", ">", " ">>)

Documents == {q \in DOMAIN disk : IsDocument(disk[q])}

(* the document of the message of ordinal n, if any *)
DocumentsOf(n) == {q \in Documents : StartsWithAt(q[2], 1, Pad4(n) \o <<"_">>)}

HeaderRaises(message, name) ==
    name \in DOMAIN message.headers /\ decode_header_value(message.headers[name]).raised

(* the processing of the message raises an exception *)
RaisesIn(message) ==
    \/ HeaderRaises(message, "Subject")
    \/ HeaderRaises(message, "From")
    \/ HeaderRaises(message, "To")
    \/ /\ extract_attachments
       /\ \E k \in 1..Len(message.parts) :
             /\ Qualifies(message.parts[k])
             /\ decode_header_value(message.parts[k].filename).raised

(* nothing fails for the message: nothing raises and the build succeeds *)
Clean(entry) == ~RaisesIn(entry.message) /\ entry.env.build = "ok"

OutputPathOf(n) ==
    <<OutputDir,
      OutputFilename(n, decode_header_value(
          Get(archive[n].message.headers, "Subject", <<"N", "o", " ", "S", "u", "b", "j", "e", "c", "t">>)).value)>>

(* the messages processed so far that have no document *)
Failed == {n \in 1..current : DocumentsOf(n) = {}}

----------------------------------------------------------------------------
C2_CountsAddUp ==
    /\ success + Cardinality(Failed) = current
    /\ current <= total
    /\ total <= n_messages
    /\ (Returned /\ archive_ok) =>
          /\ current = n_messages
          /\ ret[2] = n_messages
          /\ ret[1] + Cardinality(Failed) = n_messages
          /\ Len(printed) >= 3 =>
                /\ printed[2][2] = ret[1]
                /\ printed[3][2] = Cardinality(Failed)
                /\ printed[2][2] + printed[3][2] = n_messages

C2_Witness ==
    /\ Returned
    /\ n_messages = 3
    /\ success = 2
    /\ Cardinality(Failed) = 1
    /\ Len(printed) >= 3

----------------------------------------------------------------------------
(* the parts of a call whose payload was written, in the order of the walk *)
RECURSIVE WrittenFrom(_, _, _)
WrittenFrom(parts, ios, k) ==
    IF k > Len(parts) THEN <<>>
    ELSE (IF Writes(parts[k]) /\ ios[k] = "ok" THEN <<parts[k]>> ELSE <<>>)
         \o WrittenFrom(parts, ios, k + 1)

WrittenParts(message, ios) == WrittenFrom(Walk(message), ios, 1)

RECURSIVE SumLen(_)
SumLen(calls) == IF calls = <<>> THEN 0 ELSE Len(Head(calls).attachments) + SumLen(Tail(calls))

(* C3: the found-count is the number of qualifying parts the extractor         *)
(* visited, whether or not they were written, and the saved-count the number   *)
(* of parts written, so that found minus saved is the number of skipped parts. *)
C3_FoundCountsEveryQualifyingPart ==
    /\ attachment_count = visited
    /\ attachment_saved = SumLen(out)
    /\ attachment_count - attachment_saved = visited - SumLen(out)

(* the records of all calls so far, as <<call, index>> *)
Records == {<<c, j>> \in (1..Len(out)) \X (1..MaxParts + 1) : j <= Len(out[c].attachments)}

RecordAt(cj) == out[cj[1]].attachments[cj[2]]

RecordsMatchFiles ==
    /\ \A x, y \in Records : x # y => RecordAt(x).saved_as # RecordAt(y).saved_as
    /\ \A c \in 1..Len(out) :
          LET written == WrittenParts(arg.message, out[c].ios)
          IN  /\ Len(out[c].attachments) = Len(written)
              /\ \A j \in 1..Len(written) :
                    LET rec == out[c].attachments[j]
                    IN  /\ rec.path = <<attachments_dir, rec.saved_as>>
                        /\ rec.path \in DOMAIN disk
                        /\ disk[rec.path] = <<written[j].payload>>
                        /\ rec.size = Len(written[j].payload)
    /\ \A q \in DOMAIN arg.disk : q \in DOMAIN disk /\ disk[q] = arg.disk[q]

NothingOverwritten == \A q \in DOMAIN disk : q \in DOMAIN disk' /\ disk'[q] = disk[q]

(* C4: the extractor never writes to a path that exists: the files that were   *)
(* in the directory keep their content, every call on the same message saves   *)
(* under names no other record has, and every saved file holds the payload of  *)
(* its part, whose length is the recorded size.                                *)
C4_NoOverwrite == [](RecordsMatchFiles) /\ [][NothingOverwritten]_vars

C4_Witness ==
    /\ Len(out) = 2
    /\ arg.disk # EmptyDisk
    /\ Len(out[1].attachments) = 2
    /\ Len(out[2].attachments) = 2
    /\ out[1].attachments[1].filename = out[2].attachments[1].filename
    /\ out[1].attachments[1].saved_as # out[2].attachments[1].saved_as
    /\ disk[out[1].attachments[1].path] = disk[out[2].attachments[1].path]

(* the name with _k before the extension *)
WithSuffix(name, k) == SplitExt(name)[1] \o <<"_">> \o Str(k) \o SplitExt(name)[2]

Taken(d, dir, name) == <<dir, name>> \in DOMAIN d

ClaimedName(base, d, dir) ==
    IF ~Taken(d, dir, base) THEN base
    ELSE WithSuffix(base,
            CHOOSE k \in 1..(Cardinality(DOMAIN d) + 1) :
               /\ ~Taken(d, dir, WithSuffix(base, k))
               /\ \A j \in 1..(k - 1) : Taken(d, dir, WithSuffix(base, j)))

(* C5: when <NNNN>_<sanitized><ext> exists, the saved name is                  *)
(* <NNNN>_<sanitized>_<k><ext> for the smallest k >= 1 that is free (stated    *)
(* for the first attachment the first call saves, whose collisions are with    *)
(* the files the directory held before).                                       *)
C5_SmallestFreeSuffix ==
    (/\ Len(out) >= 1
     /\ Len(out[1].attachments) >= 1
     /\ \A k \in 1..Len(Walk(arg.message)) :
           out[1].ios[k] # "write_fails")
    => LET rec == out[1].attachments[1]
           base == Pad4(arg.email_id) \o <<"_">> \o get_safe_filename(rec.filename)
       IN  rec.saved_as = ClaimedName(base, arg.disk, attachments_dir)

----------------------------------------------------------------------------
(* C6: in every run that ends, with an archive of any length, an empty one,   *)
(* one that does not open or a missing input file, the exit status is 0       *)
(* exactly when the documents produced are strictly more than 90% of the      *)
(* messages of the archive (10 * succeeded > 9 * total), and 1 otherwise.     *)
C6_ExitStatus ==
    pc = "exit" =>
        /\ exit_code \in {0, 1}
        /\ exit_code = 0 <=> 10 * Cardinality(Documents) > 9 * n_messages

C6_Witness ==
    /\ pc = "exit"
    /\ n_messages = 10
    /\ Cardinality(Documents) = 9
    /\ exit_code = 1

C10_NoOutputLost ==
    [][/\ \A q \in DOMAIN disk : q \in DOMAIN disk' /\ disk'[q] = disk[q]
       /\ attachment_saved' >= attachment_saved]_vars

----------------------------------------------------------------------------
(* the part decodes to some text *)
Decodes(part) ==
    /\ part.payload # Undecodable
    /\ part.payload # <<>>
    /\ part.charset \in KnownCharsets

Decoded(part) ==
    [j \in 1..Len(part.payload) |->
        IF part.payload[j] = "xFF" THEN "U+FFFD" ELSE part.payload[j]]

(* the parts whose content counts, as C8 states it: those that are not        *)
(* attachments                                                                 *)
NonAttachment(message, k) ==
    Decodes(Walk(message)[k]) /\ ~Contains(Walk(message)[k].disp, "attachment")

(* the parts whose content counts: in a multipart message those that are not  *)
(* attachments, in a single-part message the message itself                    *)
Accumulated(message, k) ==
    Decodes(Walk(message)[k])
    /\ (message.multipart => ~Contains(Walk(message)[k].disp, "attachment"))

(* the part counts, under the rule as C8 states it or as amended *)
Counts(stated, message, k) ==
    IF stated THEN NonAttachment(message, k) ELSE Accumulated(message, k)

(* the decoded content of the parts of one content type that count, each      *)
(* followed by sep                                                             *)
RECURSIVE TextOf(_, _, _, _, _)
TextOf(stated, message, ctype, sep, k) ==
    IF k > Len(Walk(message)) THEN <<>>
    ELSE (IF Counts(stated, message, k) /\ Walk(message)[k].ctype = ctype
          THEN Decoded(Walk(message)[k]) \o sep ELSE <<>>)
         \o TextOf(stated, message, ctype, sep, k + 1)

DecisionRule(stated, message) ==
    LET plain == TextOf(stated, message, "text/plain",
                        IF message.multipart THEN <<"\n", "\n">> ELSE <<>>, 1)
        html  == TextOf(stated, message, "text/html", <<>>, 1)
    IN  IF Strip(plain) # <<>> THEN plain
        ELSE IF html # <<>> THEN html_to_text(html)
        ELSE NoContent

(* C8 as stated: the body is decided over the text/plain and text/html        *)
(* content of the parts that are not attachments, whatever the message.       *)
C8_DecisionRuleOverNonAttachments ==
    (pc = "done" /\ out # <<>>) => out[1] = DecisionRule(TRUE, arg.message)

(* C8: the body is the plain text when the text/plain content that counts is  *)
(* non-blank, else html_to_text of the HTML content when there is some, else   *)
(* the placeholder; a part that fails to decode is absent and the other parts *)
(* still count.  In a multipart message the parts that are attachments do not *)
(* count; a single-part message counts whatever its disposition.              *)
C8_DecisionRule ==
    (pc = "done" /\ out # <<>>) => out[1] = DecisionRule(FALSE, arg.message)

C8_Witness ==
    /\ pc = "done"
    /\ arg.message.multipart
    /\ \E k \in 1..Len(arg.message.parts) :
          arg.message.parts[k].ctype = "text/html" /\ Decodes(arg.message.parts[k])
    /\ \E k \in 1..Len(arg.message.parts) : arg.message.parts[k] = TextPart
    /\ out = << <<"h", "i", "\n", "\n">> >>

----------------------------------------------------------------------------
(* the blocks of the body: those after the four header lines and the          *)
(* separator                                                                   *)
Blocks == SubSeq(out[1].content, 8, Len(out[1].content))

(* the non-blank paragraphs of the escaped body *)
NonBlank ==
    SelectSeq(Split(EscapeMarkup(get_email_text(arg.message)), <<"\n", "\n">>),
              LAMBDA p : Strip(p) # <<>>)

Rejects(text) == \E c \in arg.env.rejects : Contains(text, c)

WithBreaks(p) == Replace(p, <<"\n">>, <<"<", "b", "r", "/", ">">>)

Underscored(p) == [j \in 1..Len(p) |-> IF IsAscii(p[j]) THEN p[j] ELSE "_"]

(* C9: every non-blank paragraph of the body gives exactly one block, in      *)
(* order: the paragraph itself when it renders, else the paragraph with every *)
(* non-ASCII character replaced by underscore when that renders, else the     *)
(* placeholder; and create_pdf returns True, with the document written,       *)
(* exactly when the build succeeds.                                            *)
C9_ParagraphFallback ==
    (pc = "done" /\ out # <<>>) =>
        /\ out[1].ok <=> arg.env.build = "ok"
        /\ out[1].ok => (arg.output_path \in DOMAIN disk
                         /\ disk[arg.output_path] = out[1].content)
        /\ Len(Blocks) = 2 * Len(NonBlank)
        /\ \A j \in 1..Len(NonBlank) :
              /\ Blocks[2 * j] = Spacer("6")
              /\ ~Rejects(WithBreaks(NonBlank[j])) => Blocks[2 * j - 1] = WithBreaks(NonBlank[j])
              /\ (Rejects(WithBreaks(NonBlank[j])) /\ ~Rejects(Underscored(NonBlank[j])))
                    => Blocks[2 * j - 1] = Underscored(NonBlank[j])
              /\ (Rejects(WithBreaks(NonBlank[j])) /\ Rejects(Underscored(NonBlank[j])))
                    => Blocks[2 * j - 1] = FormattingError

C9_Witness ==
    /\ pc = "done"
    /\ out[1].ok
    /\ arg.env.rejects = Rejected
    /\ Len(NonBlank) = 2
    /\ Blocks = << <<"_">>, Spacer("6"), FormattingError, Spacer("6") >>

----------------------------------------------------------------------------
(* the time of the last display, -1 when nothing was displayed yet *)
LastShown == IF out = <<>> THEN -1 ELSE out[Len(out)].time

(* C11: the tracker's count never decreases and goes up by exactly one with   *)
(* every message, converted, failed or raised, so that it is the number of    *)
(* messages processed so far and is total when the loop is over; an update is *)
(* displayed only when update_interval has passed since the last display or    *)
(* nothing was displayed before, except that the update that brings the count  *)
(* to total is always displayed.                                               *)
C11_ProgressCount ==
    /\ [](current = i /\ current <= total /\ (pc = "tracked" => current = total))
    /\ [][/\ current' >= current
          /\ i' # i => current' = current + 1
          /\ Len(out') > Len(out) =>
                \/ LastShown = -1
                \/ arg'.time - LastShown >= UpdateInterval
                \/ current' = total
          /\ (current' # current /\ current' = total) =>
                /\ Len(out') = Len(out) + 1
                /\ out'[Len(out')].line.current = total]_vars

C11_Witness ==
    /\ pc = "tracked"
    /\ total = 5
    /\ cur = <<"raised">>
    /\ success = 2
    /\ Len(out) = 3
    /\ out[2].line.current = 4
    /\ out[2].time - out[1].time = UpdateInterval

----------------------------------------------------------------------------
(* the number a text of digits writes *)
RECURSIVE Value(_)
Value(digits) ==
    IF digits = <<>> THEN 0
    ELSE 10 * Value(SubSeq(digits, 1, Len(digits) - 1))
         + (CHOOSE d \in 0..9 : Digit(d) = digits[Len(digits)])

(* the messages followed that were given an output path *)
Named == {k \in 1..Len(out) : out[k].output_path # <<>>}

(* name is the ordinal in at least four digits, an underscore, the subject    *)
(* with every character that is not alphanumeric, hyphen, underscore or space *)
(* replaced by underscore and cut to 50 characters, then .pdf                  *)
WellNamed(name, ordinal, subject) ==
    \E w \in 4..Len(name) :
        LET kept == Min(Len(subject), 50)
        IN  /\ Len(name) = w + 1 + kept + 4
            /\ \A j \in 1..w : name[j] \in Digits
            /\ w > 4 => name[1] # "0"
            /\ Value(SubSeq(name, 1, w)) = ordinal
            /\ name[w + 1] = "_"
            /\ \A j \in 1..kept :
                  name[w + 1 + j] =
                      IF IsAlnum(subject[j]) \/ subject[j] \in {"-", "_", " "}
                      THEN subject[j] ELSE "_"
            /\ SubSeq(name, w + kept + 2, Len(name)) = <<".", "p", "d", "f">>

(* C12: within one run the output path of a message is the output directory   *)
(* and the name described above, for the ordinal index + 1; the messages of   *)
(* distinct ordinals have distinct paths, whatever their subjects, and the    *)
(* document of each is on disk, none written over another's.                  *)
C12_DistinctOutputPaths ==
    pc = "naming" =>
        /\ \A k \in Named :
              /\ out[k].output_path[1] = OutputDir
              /\ WellNamed(out[k].output_path[2], out[k].index + 1,
                           Get(out[k].headers, "Subject", <<"N", "o", " ", "S", "u", "b", "j", "e", "c", "t">>))
              /\ out[k].output_path \in DOMAIN disk
              /\ IsDocument(disk[out[k].output_path])
        /\ \A a, b \in Named : a # b => out[a].output_path # out[b].output_path
        /\ Cardinality(DOMAIN disk) = Cardinality(Named)

C12_Witness ==
    /\ pc = "naming"
    /\ Len(out) = 2
    /\ out[1].index = 0
    /\ out[2].index = 10000
    /\ out[1].headers = out[2].headers
    /\ "Subject" \in DOMAIN out[1].headers
    /\ Len(out[1].headers.Subject) > SafeSubjectMax
    /\ Cardinality(DOMAIN disk) = 2

============================================================================
